---- MODULE Spec2Model ----
(***************************************************************************)
(* A model of youtube_autopilot_ai/autopilot.py: the topic feed parser,    *)
(* the script composer, and run_autopilot's pipeline (speech synthesis,    *)
(* image acquisition with its local fallback, the ffmpeg step), with the   *)
(* outcomes of the external services chosen by the environment.            *)
(***************************************************************************)
EXTENDS Integers, Sequences, FiniteSets, TLC

VARIABLES
    clock,            \* wall clock, in ticks of 1/TicksPerSecond second
    fs,               \* the working directory: file name -> content
    pc,               \* per invocation: where run_autopilot stands
    topics_override,  \* per invocation: the argument of run_autopilot
    topics,           \* per invocation: the local `topics`
    script_text,      \* per invocation: the local `script_text`
    timestamp,        \* per invocation: the local `timestamp`
    audio_filename,   \* per invocation: the local `audio_filename`
    image_filename,   \* per invocation: the local `image_filename`
    video_filename,   \* per invocation: the local `video_filename`
    calls,            \* per invocation: the external invocations made, in order
    env,              \* per invocation: the outcome each external step had
    exc,              \* per invocation: the exception that reached the caller
    result,           \* per invocation: the value returned to the caller
    written,          \* per invocation: the file names it wrote (history)
    call_pc,          \* a single call of a pure function: "ready" / "done" / "off"
    call_arg,         \* its argument
    call_ret          \* its return value

vars == <<clock, fs, pc, topics_override, topics, script_text, timestamp,
          audio_filename, image_filename, video_filename, calls, env, exc,
          result, written, call_pc, call_arg, call_ret>>

pipeline_vars == <<clock, fs, pc, topics_override, topics, script_text, timestamp,
                   audio_filename, image_filename, video_filename, calls, env,
                   exc, result, written>>

(***************************************************************************)
(* Bounds of the model.                                                    *)
(***************************************************************************)
MaxClock == 3
TicksPerSecond == 2
MaxPosts == 2
MaxTopics == 3

\* The invocations of run_autopilot in one process (they may overlap: the
\* dashboard handler of app.py calls run_autopilot once per request).
Runs == {"run1", "run2"}

(***************************************************************************)
(* JSON values as Python sees them after response.json().                  *)
(***************************************************************************)
EmptyDict == [k \in {} |-> [t |-> "null"]]
JNull == [t |-> "null"]
JStr(s) == [t |-> "str", s |-> s]
JList(items) == [t |-> "list", items |-> items]
JObj(f) == [t |-> "obj", f |-> f]

\* isinstance(v, dict): only a dict has .get; on anything else .get raises
\* AttributeError.
IsDict(v) == v.t = "obj"

\* dict.get(key, default)
Get(v, key, default) == IF key \in DOMAIN v.f THEN v.f[key] ELSE default

\* dict.get(key): the default is None
GetOrNone(v, key) == Get(v, key, JNull)

\* Python truthiness of a JSON value (`not title`).
Truthy(v) ==
    CASE v.t = "null" -> FALSE
      [] v.t = "str" -> v.s # ""
      [] v.t = "list" -> v.items # <<>>
      [] v.t = "obj" -> DOMAIN v.f # {}

(***************************************************************************)
(* get_trending_topics                                                     *)
(***************************************************************************)
\* What the feed can answer to requests.get(url, headers, timeout=10).
\*   unreachable : requests.get raises (network error, timeout)
\*   http_error  : response.raise_for_status() raises
\*   not_json    : response.json() raises
\*   ok          : response.json() returns body
Response(status, body) == [status |-> status, body |-> body]

\* The `data` objects of a feed entry: title and permalink present, absent,
\* null or empty.
PostData ==
    { JObj(f) : f \in
        {[title |-> ti, permalink |-> pe] : ti \in {JNull, JStr(""), JStr("A"), JStr("B")},
                                            pe \in {JStr("/a")}}
        \cup {[title |-> ti] : ti \in {JStr("A")}}
        \cup {[permalink |-> pe] : pe \in {JStr("/a")}} }

\* The feed entries: objects whose data is an object, is null, or is absent,
\* and an entry that is not an object.
Posts ==
    {JObj([data |-> d]) : d \in PostData \cup {JNull}} \cup {JObj(EmptyDict), JNull}

RECURSIVE SeqsUpTo(_, _)
SeqsUpTo(S, n) ==
    IF n = 0 THEN {<<>>}
    ELSE LET shorter == SeqsUpTo(S, n - 1)
         IN shorter \cup {Append(q, x) : q \in {q \in shorter : Len(q) = n - 1}, x \in S}

Listing(children) == JObj([data |-> JObj([children |-> JList(children)])])

\* The exception-or-value result of the try block.
Raised == [raised |-> TRUE, topics |-> <<>>]
Returned(ts) == [raised |-> FALSE, topics |-> ts]

\* The for loop of get_trending_topics over the remaining children, `acc`
\* being the local `topics` so far.  post.get / post_data.get raise
\* AttributeError when the receiver is not a dict.
RECURSIVE CollectTopics(_, _)
CollectTopics(children, acc) ==
    IF children = <<>> THEN Returned(acc)
    ELSE LET post == Head(children) IN
         IF ~IsDict(post) THEN Raised
         ELSE LET post_data == Get(post, "data", JObj(EmptyDict)) IN
              IF ~IsDict(post_data) THEN Raised
              ELSE LET title == GetOrNone(post_data, "title")
                       permalink == GetOrNone(post_data, "permalink")
                   IN IF ~Truthy(title) \/ ~Truthy(permalink)
                      THEN CollectTopics(Tail(children), acc)
                      ELSE CollectTopics(Tail(children),
                               Append(acc, [title |-> title.s,
                                            url |-> "https://reddit.com" \o permalink.s]))

\* The body of the try block once response.json() has returned `data`.
ParseListing(data) ==
    IF ~IsDict(data) THEN Raised
    ELSE LET listing == Get(data, "data", JObj(EmptyDict)) IN
         IF ~IsDict(listing) THEN Raised
         ELSE LET children == Get(listing, "children", JList(<<>>)) IN
              IF children.t = "list" THEN CollectTopics(children.items, <<>>)
              ELSE IF Truthy(children) \/ children.t = "null" THEN Raised
              ELSE Returned(<<>>)

\* try: ... except Exception: return []
TryFetch(response) ==
    IF response.status # "ok" THEN Raised ELSE ParseListing(response.body)

get_trending_topics(response) ==
    LET r == TryFetch(response) IN IF r.raised THEN <<>> ELSE r.topics

\* The request get_trending_topics(num_topics) sends.
FeedRequest(num_topics) ==
    [svc |-> "feed",
     req |-> "https://www.reddit.com/r/artificial/top/.json?limit="
                \o ToString(num_topics) \o "&t=day"]

(***************************************************************************)
(* generate_script                                                         *)
(***************************************************************************)
Greeting == "Hello and welcome to today's AI news update."
FallbackLine == "Unfortunately, I could not retrieve the latest stories. Please check back later."
Closing == "Thank you for watching. Don't forget to like and subscribe for more AI news!"

\* topic.get("title", "")
TitleOf(topic) == IF "title" \in DOMAIN topic THEN topic.title ELSE ""

\* f"Story {idx}: {title}."
StoryLine(idx, topic) == "Story " \o ToString(idx) \o ": " \o TitleOf(topic) \o "."

\* The local `lines` when generate_script returns, were enumerate to start at 0.
ScriptLinesFromZero(topic_seq) ==
    <<Greeting>>
    \o (IF topic_seq = <<>> THEN <<FallbackLine>>
        ELSE [i \in 1..Len(topic_seq) |-> StoryLine(i - 1, topic_seq[i])])
    \o <<Closing>>

\* The local `lines` when generate_script returns.
ScriptLines(topic_seq) ==
    <<Greeting>>
    \o (IF topic_seq = <<>> THEN <<FallbackLine>>
        ELSE [i \in 1..Len(topic_seq) |-> StoryLine(i, topic_seq[i])])
    \o <<Closing>>

\* sep.join(lines)
RECURSIVE Join(_, _)
Join(sep, lines) ==
    IF lines = <<>> THEN ""
    ELSE IF Len(lines) = 1 THEN lines[1]
    ELSE lines[1] \o sep \o Join(sep, Tail(lines))

generate_script(topic_seq) == Join(" \n", ScriptLines(topic_seq))

(***************************************************************************)
(* run_autopilot and the steps it calls                                    *)
(***************************************************************************)
\* The arguments run_autopilot is called with: None, or a list of strings.
PyNone == [none |-> TRUE, items |-> <<>>]
PyList(items) == [none |-> FALSE, items |-> items]
Overrides == {PyNone, PyList(<<>>), PyList(<<"X", "Y">>), PyList(<<"Y">>)}

\* The answers of the topic feed the pipeline is run against.
GoodPost(title, permalink) ==
    JObj([data |-> JObj([title |-> JStr(title), permalink |-> JStr(permalink)])])
FeedResponses ==
    { Response("unreachable", JNull),
      Response("ok", Listing(<<GoodPost("A", "/a"), GoodPost("B", "/b")>>)),
      Response("ok", Listing(<<GoodPost("A", "/a"), JObj([data |-> JNull])>>)) }

\* The diagnostics ffmpeg may leave on stderr when it exits non-zero.
Diagnostics == {"", "Invalid data found when processing input"}

NumTopics == 5
ImageWidth == 1280
ImageHeight == 720
Cwd == "/srv/app"

NoExc == [type |-> "", msg |-> "", origin |-> ""]
NoEnv == [feed |-> "", speech |-> "", fetch |-> "", write |-> "", save |-> "",
          encoder |-> "", stderr |-> ""]
NoFiles == [p \in {} |-> ""]

\* open(name, "wb") ... write: the file holds `content` afterwards.
WriteFile(f, name, content) ==
    [p \in DOMAIN f \cup {name} |-> IF p = name THEN content ELSE f[p]]

Pad2(n) == IF n < 10 THEN "0" \o ToString(n) ELSE ToString(n)

\* datetime.now().strftime("%Y%m%d_%H%M%S") at tick t: the sub-second part of
\* the clock is dropped.
Strftime(t) == "20260101_0000" \o Pad2(t \div TicksPerSecond)

\* os.path.abspath of a bare file name
Abspath(name) == Cwd \o "/" \o name

\* The test of line 207, were it `if topics_override is not None`.
UseOverrideWhenGiven(ov) == ~ov.none

\* `if topics_override and len(topics_override) > 0`
UseOverride(ov) == ~ov.none /\ ov.items # <<>> /\ Len(ov.items) > 0

\* [{"title": t, "url": ""} for t in topics_override]
WrapOverride(items) == [i \in 1..Len(items) |-> [title |-> items[i], url |-> ""]]

Init ==
    /\ clock = 0
    /\ fs = NoFiles
    /\ pc = [r \in Runs |-> "idle"]
    /\ topics_override = [r \in Runs |-> PyNone]
    /\ topics = [r \in Runs |-> <<>>]
    /\ script_text = [r \in Runs |-> ""]
    /\ timestamp = [r \in Runs |-> ""]
    /\ audio_filename = [r \in Runs |-> ""]
    /\ image_filename = [r \in Runs |-> ""]
    /\ video_filename = [r \in Runs |-> ""]
    /\ calls = [r \in Runs |-> <<>>]
    /\ env = [r \in Runs |-> NoEnv]
    /\ exc = [r \in Runs |-> NoExc]
    /\ result = [r \in Runs |-> ""]
    /\ written = [r \in Runs |-> {}]
    /\ call_pc = "off"
    /\ call_arg = <<>>
    /\ call_ret = <<>>

pure_vars == <<call_pc, call_arg, call_ret>>

\* The wall clock advances.
Tick ==
    /\ clock < MaxClock
    /\ clock' = clock + 1
    /\ UNCHANGED <<fs, pc, topics_override, topics, script_text, timestamp,
                   audio_filename, image_filename, video_filename, calls, env,
                   exc, result, written, pure_vars>>

\* A caller invokes run_autopilot(ov).
CallRunAutopilot(r) ==
    /\ pc[r] = "idle"
    /\ \E ov \in Overrides : topics_override' = [topics_override EXCEPT ![r] = ov]
    /\ pc' = [pc EXCEPT ![r] = "Start"]
    /\ UNCHANGED <<clock, fs, topics, script_text, timestamp, audio_filename,
                   image_filename, video_filename, calls, env, exc, result,
                   written, pure_vars>>

\* Lines 207-210: the override, or the feed.
ResolveTopics(r) ==
    /\ pc[r] = "Start"
    /\ IF UseOverride(topics_override[r])
       THEN /\ topics' = [topics EXCEPT ![r] = WrapOverride(topics_override[r].items)]
            /\ UNCHANGED <<calls, env>>
       ELSE \E response \in FeedResponses :
            /\ topics' = [topics EXCEPT ![r] = get_trending_topics(response)]
            /\ calls' = [calls EXCEPT ![r] = Append(@, FeedRequest(NumTopics))]
            /\ env' = [env EXCEPT ![r].feed = response.status]
    /\ pc' = [pc EXCEPT ![r] = "TopicsResolved"]
    /\ UNCHANGED <<clock, fs, topics_override, script_text, timestamp,
                   audio_filename, image_filename, video_filename, exc, result,
                   written, pure_vars>>

\* Lines 212-216, were the clock read anew for the video's name: a second may
\* have passed since the first reading.
ComposeAndNamePerFile(r) ==
    /\ pc[r] = "TopicsResolved"
    /\ script_text' = [script_text EXCEPT ![r] = generate_script(topics[r])]
    /\ timestamp' = [timestamp EXCEPT ![r] = Strftime(clock)]
    /\ audio_filename' = [audio_filename EXCEPT ![r] = "voice_" \o timestamp'[r] \o ".mp3"]
    /\ image_filename' = [image_filename EXCEPT ![r] = "background_" \o timestamp'[r] \o ".jpg"]
    /\ \E later \in {clock, clock + TicksPerSecond} :
          video_filename' = [video_filename EXCEPT ![r] = "output_" \o Strftime(later) \o ".mp4"]
    /\ pc' = [pc EXCEPT ![r] = "ScriptComposed"]
    /\ UNCHANGED <<clock, fs, topics_override, topics, calls, env, exc, result,
                   written, pure_vars>>

\* Lines 212-216: the script, the run identifier and the three file names.
ComposeAndName(r) ==
    /\ pc[r] = "TopicsResolved"
    /\ script_text' = [script_text EXCEPT ![r] = generate_script(topics[r])]
    /\ timestamp' = [timestamp EXCEPT ![r] = Strftime(clock)]
    /\ audio_filename' = [audio_filename EXCEPT ![r] = "voice_" \o timestamp'[r] \o ".mp3"]
    /\ image_filename' = [image_filename EXCEPT ![r] = "background_" \o timestamp'[r] \o ".jpg"]
    /\ video_filename' = [video_filename EXCEPT ![r] = "output_" \o timestamp'[r] \o ".mp4"]
    /\ pc' = [pc EXCEPT ![r] = "ScriptComposed"]
    /\ UNCHANGED <<clock, fs, topics_override, topics, calls, env, exc, result,
                   written, pure_vars>>

\* One external invocation: the service, what it was asked, and the file it
\* is to produce ("" for the feed).
Invocation(svc, req, out) == [svc |-> svc, req |-> req, out |-> out]

\* generate_audio: gTTS(text).save(audio_filename).  There is no handler: a
\* failure leaves run_autopilot as the exception it is.
SpeechOutcomes == {"ok", "fail"}
SpeechError == [type |-> "gTTSError", msg |-> "", origin |-> "generate_audio"]

\* generate_audio, were a failure of the synthesis swallowed.
GenerateAudioSwallowing(r) ==
    /\ pc[r] = "ScriptComposed"
    /\ \E outcome \in SpeechOutcomes :
        /\ env' = [env EXCEPT ![r].speech = outcome]
        /\ calls' = [calls EXCEPT ![r] =
                        Append(@, Invocation("speech", script_text[r], audio_filename[r]))]
        /\ pc' = [pc EXCEPT ![r] = "AudioReady"]
        /\ IF outcome = "ok"
           THEN /\ fs' = WriteFile(fs, audio_filename[r], "mp3")
                /\ written' = [written EXCEPT ![r] = @ \cup {audio_filename[r]}]
           ELSE UNCHANGED <<fs, written>>
    /\ UNCHANGED <<clock, topics_override, topics, script_text, timestamp,
                   audio_filename, image_filename, video_filename, exc, result,
                   pure_vars>>

\* Line 218: generate_audio(script_text, audio_filename).
GenerateAudio(r) ==
    /\ pc[r] = "ScriptComposed"
    /\ \E outcome \in SpeechOutcomes :
        /\ env' = [env EXCEPT ![r].speech = outcome]
        /\ calls' = [calls EXCEPT ![r] =
                        Append(@, Invocation("speech", script_text[r], audio_filename[r]))]
        /\ IF outcome = "ok"
           THEN /\ fs' = WriteFile(fs, audio_filename[r], "mp3")
                /\ written' = [written EXCEPT ![r] = @ \cup {audio_filename[r]}]
                /\ pc' = [pc EXCEPT ![r] = "AudioReady"]
                /\ UNCHANGED exc
           ELSE /\ exc' = [exc EXCEPT ![r] = SpeechError]
                /\ pc' = [pc EXCEPT ![r] = "Failed"]
                /\ UNCHANGED <<fs, written>>
    /\ UNCHANGED <<clock, topics_override, topics, script_text, timestamp,
                   audio_filename, image_filename, video_filename, result,
                   pure_vars>>

\* What the image step can meet:
\*   fetch : requests.get + raise_for_status: "ok", "network", "http"
\*   write : open(image_filename, "wb") + write: "ok", "fail"; "n/a" when the
\*           fetch failed (the write is not attempted)
\*   save  : img.save(image_filename) in the handler: "ok", "fail"; "n/a" when
\*           the handler is not entered
ImageScenarios ==
    { sc \in [fetch : {"ok", "network", "http"}, write : {"ok", "fail", "n/a"},
              save : {"ok", "fail", "n/a"}] :
        /\ (sc.write = "n/a") <=> (sc.fetch # "ok")
        /\ (sc.save = "n/a") <=> (sc.fetch = "ok" /\ sc.write = "ok") }

\* f"https://source.unsplash.com/random/{width}x{height}/?{query}"
ImageUrl(query, width, height) ==
    "https://source.unsplash.com/random/" \o ToString(width) \o "x"
        \o ToString(height) \o "/?" \o query

\* Image.new("RGB", (width, height), color=(0, 0, 0))
Placeholder(width, height) ==
    "RGB(0,0,0) " \o ToString(width) \o "x" \o ToString(height)

ImageError == [type |-> "OSError", msg |-> "", origin |-> "download_image"]

\* download_image's try / except: the file content it leaves, or the
\* exception that leaves the handler (which nothing catches).
DownloadOutcome(sc, width, height) ==
    IF sc.fetch = "ok" /\ sc.write = "ok"
    THEN [raised |-> FALSE, content |-> "resp.content"]
    ELSE IF sc.save = "ok"
         THEN [raised |-> FALSE, content |-> Placeholder(width, height)]
         ELSE [raised |-> TRUE, content |-> ""]

\* Line 220: download_image("ai,technology", 1280, 720, image_filename).
DownloadImage(r) ==
    /\ pc[r] = "AudioReady"
    /\ \E sc \in ImageScenarios :
        LET o == DownloadOutcome(sc, ImageWidth, ImageHeight) IN
        /\ env' = [env EXCEPT ![r].fetch = sc.fetch, ![r].write = sc.write,
                              ![r].save = sc.save]
        /\ calls' = [calls EXCEPT ![r] =
                        Append(@, Invocation("image",
                                     ImageUrl("ai,technology", ImageWidth, ImageHeight),
                                     image_filename[r]))]
        /\ IF o.raised
           THEN /\ exc' = [exc EXCEPT ![r] = ImageError]
                /\ pc' = [pc EXCEPT ![r] = "Failed"]
                /\ UNCHANGED <<fs, written>>
           ELSE /\ fs' = WriteFile(fs, image_filename[r], o.content)
                /\ written' = [written EXCEPT ![r] = @ \cup {image_filename[r]}]
                /\ pc' = [pc EXCEPT ![r] = "ImageReady"]
                /\ UNCHANGED exc
    /\ UNCHANGED <<clock, topics_override, topics, script_text, timestamp,
                   audio_filename, image_filename, video_filename, result,
                   pure_vars>>

\* What subprocess.run(command, ..., check=True) can meet: ffmpeg exits 0, the
\* executable is not found (FileNotFoundError), or it exits non-zero
\* (CalledProcessError carrying the captured stderr).
EncoderOutcomes ==
    {[kind |-> "ok", stderr |-> ""], [kind |-> "missing", stderr |-> ""]}
    \cup {[kind |-> "nonzero", stderr |-> d] : d \in Diagnostics}

\* The argument list of lines 164-177, joined by spaces.
FfmpegCommand(image, audio, output) ==
    "ffmpeg -y -loop 1 -i " \o image \o " -i " \o audio
        \o " -c:v libx264 -tune stillimage -c:a aac -b:a 192k -pix_fmt yuv420p -shortest "
        \o output

NotFoundMsg == "ffmpeg executable not found. Please install ffmpeg and ensure it is in your PATH."

\* The handlers of combine_audio_image, were CalledProcessError not handled.
MuxErrorUnhandled(outcome) ==
    IF outcome.kind = "missing"
    THEN [type |-> "RuntimeError", msg |-> NotFoundMsg, origin |-> "combine_audio_image"]
    ELSE [type |-> "CalledProcessError", msg |-> "", origin |-> "combine_audio_image"]

\* Lines 180-183: the exception each failure of the encoder is turned into.
MuxError(outcome) ==
    IF outcome.kind = "missing"
    THEN [type |-> "RuntimeError", msg |-> NotFoundMsg, origin |-> "combine_audio_image"]
    ELSE [type |-> "RuntimeError", msg |-> "ffmpeg failed: " \o outcome.stderr,
          origin |-> "combine_audio_image"]

\* os.remove(name)
RemoveFiles(f, names) == [p \in DOMAIN f \ names |-> f[p]]

\* Lines 222-223, were the intermediate files removed when the encoder fails.
CombineAudioImageCleaning(r) ==
    /\ pc[r] = "ImageReady"
    /\ \E outcome \in EncoderOutcomes :
        /\ env' = [env EXCEPT ![r].encoder = outcome.kind, ![r].stderr = outcome.stderr]
        /\ calls' = [calls EXCEPT ![r] =
                        Append(@, Invocation("encoder",
                                     FfmpegCommand(image_filename[r], audio_filename[r],
                                                   video_filename[r]),
                                     video_filename[r]))]
        /\ IF outcome.kind = "ok"
           THEN /\ fs' = WriteFile(fs, video_filename[r], "mp4")
                /\ written' = [written EXCEPT ![r] = @ \cup {video_filename[r]}]
                /\ result' = [result EXCEPT ![r] = Abspath(video_filename[r])]
                /\ pc' = [pc EXCEPT ![r] = "VideoReady"]
                /\ UNCHANGED exc
           ELSE /\ exc' = [exc EXCEPT ![r] = MuxError(outcome)]
                /\ pc' = [pc EXCEPT ![r] = "Failed"]
                /\ fs' = RemoveFiles(fs, {audio_filename[r], image_filename[r]})
                /\ UNCHANGED <<written, result>>
    /\ UNCHANGED <<clock, topics_override, topics, script_text, timestamp,
                   audio_filename, image_filename, video_filename, pure_vars>>

\* Lines 222-223: combine_audio_image(image, audio, video), then the return of
\* os.path.abspath(video_filename).
CombineAudioImage(r) ==
    /\ pc[r] = "ImageReady"
    /\ \E outcome \in EncoderOutcomes :
        /\ env' = [env EXCEPT ![r].encoder = outcome.kind, ![r].stderr = outcome.stderr]
        /\ calls' = [calls EXCEPT ![r] =
                        Append(@, Invocation("encoder",
                                     FfmpegCommand(image_filename[r], audio_filename[r],
                                                   video_filename[r]),
                                     video_filename[r]))]
        /\ IF outcome.kind = "ok"
           THEN /\ fs' = WriteFile(fs, video_filename[r], "mp4")
                /\ written' = [written EXCEPT ![r] = @ \cup {video_filename[r]}]
                /\ result' = [result EXCEPT ![r] = Abspath(video_filename[r])]
                /\ pc' = [pc EXCEPT ![r] = "VideoReady"]
                /\ UNCHANGED exc
           ELSE /\ exc' = [exc EXCEPT ![r] = MuxError(outcome)]
                /\ pc' = [pc EXCEPT ![r] = "Failed"]
                /\ UNCHANGED <<fs, written, result>>
    /\ UNCHANGED <<clock, topics_override, topics, script_text, timestamp,
                   audio_filename, image_filename, video_filename, pure_vars>>

Next ==
    \/ Tick
    \/ \E r \in Runs : CallRunAutopilot(r)
    \/ \E r \in Runs : ResolveTopics(r)
    \/ \E r \in Runs : ComposeAndName(r)
    \/ \E r \in Runs : GenerateAudio(r)
    \/ \E r \in Runs : DownloadImage(r)
    \/ \E r \in Runs : CombineAudioImage(r)

Spec == Init /\ [][Next]_vars

(***************************************************************************)
(* Single calls of the two pure functions, on inputs from bounded sets.    *)
(***************************************************************************)
IdlePipeline ==
    /\ clock = 0
    /\ fs = NoFiles
    /\ pc = [r \in Runs |-> "idle"]
    /\ topics_override = [r \in Runs |-> PyNone]
    /\ topics = [r \in Runs |-> <<>>]
    /\ script_text = [r \in Runs |-> ""]
    /\ timestamp = [r \in Runs |-> ""]
    /\ audio_filename = [r \in Runs |-> ""]
    /\ image_filename = [r \in Runs |-> ""]
    /\ video_filename = [r \in Runs |-> ""]
    /\ calls = [r \in Runs |-> <<>>]
    /\ env = [r \in Runs |-> NoEnv]
    /\ exc = [r \in Runs |-> NoExc]
    /\ result = [r \in Runs |-> ""]
    /\ written = [r \in Runs |-> {}]

\* The answers of the feed: the failures before any JSON is at hand, bodies
\* that are not a listing, and listings of up to MaxPosts entries.
FeedInputs ==
    {Response(st, JNull) : st \in {"unreachable", "http_error", "not_json"}}
    \cup {Response("ok", b) : b \in
            {JNull, JObj(EmptyDict), JObj([data |-> JNull]), JObj([data |-> JObj(EmptyDict)]),
             JObj([data |-> JObj([children |-> JNull])])}}
    \cup {Response("ok", Listing(c)) : c \in SeqsUpTo(Posts, MaxPosts)}

InitFeed ==
    /\ IdlePipeline
    /\ call_pc = "ready"
    /\ call_arg \in FeedInputs
    /\ call_ret = <<>>

CallGetTrendingTopics ==
    /\ call_pc = "ready"
    /\ call_ret' = get_trending_topics(call_arg)
    /\ call_pc' = "done"
    /\ UNCHANGED <<call_arg, pipeline_vars>>

SpecFeed == InitFeed /\ [][CallGetTrendingTopics]_vars

\* The topic dicts generate_script is called on: with a title and a url, and
\* one without the title key.
TopicInputs ==
    {[title |-> "A", url |-> ""], [title |-> "B", url |-> "https://reddit.com/b"],
     [title |-> "A B", url |-> ""], [url |-> ""]}

InitScript ==
    /\ IdlePipeline
    /\ call_pc = "ready"
    /\ call_arg \in SeqsUpTo(TopicInputs, MaxTopics)
    /\ call_ret = [lines |-> <<>>, text |-> ""]

CallGenerateScript ==
    /\ call_pc = "ready"
    /\ call_ret' = [lines |-> ScriptLines(call_arg), text |-> generate_script(call_arg)]
    /\ call_pc' = "done"
    /\ UNCHANGED <<call_arg, pipeline_vars>>

SpecScript == InitScript /\ [][CallGenerateScript]_vars

(***************************************************************************)
(* Properties                                                              *)
(***************************************************************************)
Started(r) == pc[r] # "idle"
Resolved(r) == pc[r] \notin {"idle", "Start"}
Named(r) == pc[r] \notin {"idle", "Start", "TopicsResolved"}
Services(r) == [i \in 1..Len(calls[r]) |-> calls[r][i].svc]
Invoked(r, svc) == \E i \in 1..Len(calls[r]) : calls[r][i].svc = svc
CallsTo(r, svc) == {i \in 1..Len(calls[r]) : calls[r][i].svc = svc}
NonEmptyList(ov) == ~ov.none /\ Len(ov.items) >= 1
IsPrefix(s, t) == Len(s) <= Len(t) /\ \A i \in 1..Len(s) : s[i] = t[i]
EncoderFailed(r) == env[r].encoder \in {"missing", "nonzero"}

\* C1: a run ends Failed only when speech synthesis or the encoder failed; a
\* run whose speech synthesis succeeded gets past the image step; a run whose
\* speech synthesis and encoder both succeeded returns a video path.
C1_FailsOnlyOnSpeechOrEncoder ==
    \A r \in Runs :
        /\ pc[r] = "Failed" => (env[r].speech = "fail" \/ EncoderFailed(r))
        /\ (env[r].speech = "ok" /\ env[r].fetch # "") =>
               pc[r] \in {"ImageReady", "VideoReady", "Failed"} /\ exc[r].origin # "download_image"
        /\ (env[r].speech = "ok" /\ env[r].encoder = "ok") =>
               pc[r] = "VideoReady" /\ result[r] # ""

\* C2: with a non-empty override list the feed is never called and the topics
\* are the override strings in order, one topic each, with an empty url;
\* otherwise the feed is queried, once, with limit=5.
C2_OverrideBypassesFeed ==
    \A r \in Runs : Resolved(r) =>
        LET ov == topics_override[r] IN
        IF NonEmptyList(ov)
        THEN /\ ~Invoked(r, "feed")
             /\ Len(topics[r]) = Len(ov.items)
             /\ \A i \in 1..Len(ov.items) :
                    topics[r][i] = [title |-> ov.items[i], url |-> ""]
        ELSE /\ Cardinality(CallsTo(r, "feed")) = 1
             /\ calls[r][1].req =
                    "https://www.reddit.com/r/artificial/top/.json?limit=5&t=day"

C2_Witness ==
    \E r \in Runs :
        /\ pc[r] = "VideoReady"
        /\ topics_override[r] = PyList(<<"X", "Y">>)
        /\ topics[r] = <<[title |-> "X", url |-> ""], [title |-> "Y", url |-> ""]>>

\* An entry the feed documents as usable: an object whose data is an object
\* holding a non-empty title string and a non-empty permalink string.
WellFormedPost(post) ==
    /\ post.t = "obj"
    /\ "data" \in DOMAIN post.f
    /\ post.f["data"].t = "obj"
    /\ \A k \in {"title", "permalink"} :
          /\ k \in DOMAIN post.f["data"].f
          /\ post.f["data"].f[k].t = "str"
          /\ post.f["data"].f[k].s # ""

RECURSIVE ExpectedTopics(_)
ExpectedTopics(children) ==
    IF children = <<>> THEN <<>>
    ELSE LET post == Head(children) IN
         IF WellFormedPost(post)
         THEN <<[title |-> post.f["data"].f["title"].s,
                 url |-> "https://reddit.com" \o post.f["data"].f["permalink"].s]>>
              \o ExpectedTopics(Tail(children))
         ELSE ExpectedTopics(Tail(children))

IsListing(body) ==
    /\ body.t = "obj"
    /\ "data" \in DOMAIN body.f
    /\ body.f["data"].t = "obj"
    /\ "children" \in DOMAIN body.f["data"].f
    /\ body.f["data"].f["children"].t = "list"

\* C3: for a feed answer parsed as JSON, get_trending_topics returns exactly
\* the entries that have a title and a permalink, in feed order, the url being
\* the host prefixed to the permalink; a malformed entry is skipped alone.
C3_SkipsOnlyBadEntries ==
    (call_pc = "done" /\ call_arg.status = "ok" /\ IsListing(call_arg.body)) =>
        call_ret = ExpectedTopics(call_arg.body.f["data"].f["children"].items)

C5_DownloadImageNeverRaises ==
    \A r \in Runs : env[r].fetch # "" =>
        /\ exc[r].origin # "download_image"
        /\ image_filename[r] \in DOMAIN fs

\* C6 as stated: normal return when ffmpeg exits 0, an error naming the
\* missing dependency when it is not found, an error carrying stderr when it
\* exits non-zero, the two errors being of distinct kinds.
C6_DistinctErrorKinds ==
    /\ \A r \in Runs :
          /\ env[r].encoder = "ok" => exc[r] = NoExc
          /\ env[r].encoder = "missing" => exc[r].msg = NotFoundMsg
          /\ env[r].encoder = "nonzero" => exc[r].msg = "ffmpeg failed: " \o env[r].stderr
    /\ \A r1, r2 \in Runs :
          (env[r1].encoder = "missing" /\ env[r2].encoder = "nonzero") =>
              exc[r1].type # exc[r2].type

\* C6 as amended: the same three outcomes, both errors being RuntimeError (the
\* one generic kind), told apart by their message only; nothing else escapes.
C6_SameKindDistinctMessages ==
    /\ \A r \in Runs :
          /\ env[r].encoder = "ok" => (exc[r] = NoExc /\ pc[r] = "VideoReady")
          /\ env[r].encoder = "missing" =>
                (pc[r] = "Failed" /\ exc[r].type = "RuntimeError" /\ exc[r].msg = NotFoundMsg)
          /\ env[r].encoder = "nonzero" =>
                (pc[r] = "Failed" /\ exc[r].type = "RuntimeError"
                    /\ exc[r].msg = "ffmpeg failed: " \o env[r].stderr)
    /\ \A r1, r2 \in Runs :
          (env[r1].encoder = "missing" /\ env[r2].encoder = "nonzero") =>
              (exc[r1].type = exc[r2].type /\ exc[r1].msg # exc[r2].msg)

C6_Witness ==
    \E r1, r2 \in Runs :
        /\ env[r1].encoder = "missing" /\ pc[r1] = "Failed"
        /\ env[r2].encoder = "nonzero" /\ pc[r2] = "Failed"
        /\ env[r2].stderr # ""

\* C7: the run identifier is derived once; the audio, image and video paths
\* handed to the three steps are that identifier between fixed prefixes and
\* extensions, and the path returned is the absolute form of the video path
\* the encoder was given.
C7_OneIdentifier ==
    \A r \in Runs : Named(r) =>
        /\ \A i \in 1..Len(calls[r]) :
              /\ calls[r][i].svc = "speech" =>
                    calls[r][i].out = "voice_" \o timestamp[r] \o ".mp3"
              /\ calls[r][i].svc = "image" =>
                    calls[r][i].out = "background_" \o timestamp[r] \o ".jpg"
              /\ calls[r][i].svc = "encoder" =>
                    /\ calls[r][i].out = "output_" \o timestamp[r] \o ".mp4"
                    /\ pc[r] = "VideoReady" => result[r] = Cwd \o "/" \o calls[r][i].out
        /\ pc[r] = "VideoReady" =>
              /\ Invoked(r, "encoder")
              /\ result[r] = Cwd \o "/output_" \o timestamp[r] \o ".mp4"

C7_Witness ==
    \E r \in Runs :
        /\ pc[r] = "VideoReady"
        /\ timestamp[r] # Strftime(clock)
        /\ result[r] = "/srv/app/output_20260101_000000.mp4"
        /\ audio_filename[r] = "voice_20260101_000000.mp3"
        /\ image_filename[r] = "background_20260101_000000.jpg"

\* C8: no file name written by one invocation is written by another.
C8_ExclusiveArtifacts ==
    \A r1, r2 \in Runs : r1 # r2 => written[r1] \cap written[r2] = {}

\* C9: the external invocations of a run are a prefix of feed (absent with a
\* non-empty override), speech, image, encoder: each at most once, in that
\* order, and none after a failed speech synthesis.
C9_InvocationOrder ==
    \A r \in Runs : Started(r) =>
        LET expected == (IF NonEmptyList(topics_override[r]) THEN <<>> ELSE <<"feed">>)
                            \o <<"speech", "image", "encoder">>
        IN /\ IsPrefix(Services(r), expected)
           /\ env[r].speech = "fail" =>
                 (~Invoked(r, "image") /\ ~Invoked(r, "encoder") /\ pc[r] = "Failed")
           /\ pc[r] = "Failed" => calls[r] # <<>> /\ calls[r][Len(calls[r])].svc # "feed"

C9_Witness ==
    \E r \in Runs :
        /\ env[r].speech = "fail"
        /\ pc[r] = "Failed"
        /\ Services(r) = <<"feed", "speech">>

\* C10: nothing a run produced is deleted: when the encoder step has failed
\* the audio and image files are still there and no value is returned, and
\* after a success they are there beside the video.
C10_ArtifactsKept ==
    \A r \in Runs :
        /\ env[r].encoder # "" =>
              (audio_filename[r] \in DOMAIN fs /\ image_filename[r] \in DOMAIN fs)
        /\ env[r].encoder = "ok" => video_filename[r] \in DOMAIN fs
        /\ pc[r] = "Failed" => result[r] = ""
        /\ written[r] \subseteq DOMAIN fs

C10_Witness ==
    \E r \in Runs :
        /\ pc[r] = "Failed"
        /\ env[r].encoder = "nonzero"
        /\ audio_filename[r] \in DOMAIN fs
        /\ image_filename[r] \in DOMAIN fs

====
